---- MODULE Spec2Model ----
(***************************************************************************)
(* Model of terminal-donut-rs: src/src/lib.rs (the SDF combinators, the    *)
(* ray marcher cast_ray, render_scene and scene).                          *)
(*                                                                         *)
(* f32 values are fixed-point integers with ONE standing for 1.0, so the   *)
(* grid step is 0.0001, the eps of estimate_normal.  NaN and f32::MAX are  *)
(* two reserved values; every operation the code applies to a value that   *)
(* can be NaN has the IEEE/Rust behaviour (comparisons false, max/min      *)
(* return the other operand, `as usize` gives 0).                          *)
(***************************************************************************)
EXTENDS Integers, Sequences, FiniteSets, TLC

\* ------------------------------------------------------------------ f32
ONE == 10000
NaN == -2000000000
F32_MAX == 1000000000

MAX_STEPS == 100
MAX_DISTANCE == 100 * ONE
EPSILON == ONE \div 100
SYMBOLS == <<" ", ".", ",", ":", ";", "i", "1", "t", "f", "L", "C", "G", "0", "8", "@">>

IsNaN(a) == a = NaN
Abs(a) == IF a < 0 THEN -a ELSE a
Sgn(a) == IF a < 0 THEN -1 ELSE 1
\* a < b on f32: false when either side is NaN
FLt(a, b) == ~IsNaN(a) /\ ~IsNaN(b) /\ a < b
FAdd(a, b) == IF IsNaN(a) \/ IsNaN(b) THEN NaN ELSE a + b
FSub(a, b) == IF IsNaN(a) \/ IsNaN(b) THEN NaN ELSE a - b
\* f32::max / f32::min: the other operand when one is NaN
FMax(a, b) == IF IsNaN(a) THEN b ELSE IF IsNaN(b) THEN a ELSE IF a > b THEN a ELSE b
FMin(a, b) == IF IsNaN(a) THEN b ELSE IF IsNaN(b) THEN a ELSE IF a < b THEN a ELSE b
\* a * b, rounded toward zero; split so that no partial product overflows
FMul(a, b) ==
    IF IsNaN(a) \/ IsNaN(b) THEN NaN
    ELSE LET aq == Abs(a) \div ONE
             ar == Abs(a) % ONE
             bq == Abs(b) \div ONE
             br == Abs(b) % ONE
         IN  Sgn(a) * Sgn(b) * (aq * bq * ONE + aq * br + ar * bq + (ar * br) \div ONE)
\* the fraction r / b (0 <= r < b) to the digits of scale, by long division
RECURSIVE LongDiv(_, _, _)
LongDiv(r, b, scale) ==
    IF scale <= 1 THEN 0
    ELSE ((r * 10) \div b) * (scale \div 10) + LongDiv((r * 10) % b, b, scale \div 10)
\* a / b for b # 0, rounded toward zero
FDiv(a, b) ==
    Sgn(a) * Sgn(b) * ((Abs(a) \div Abs(b)) * ONE + LongDiv(Abs(a) % Abs(b), Abs(b), ONE))

\* ----------------------------------------------------------------- Vec3
vec3(x, y, z) == [x |-> x, y |-> y, z |-> z]
ZERO == vec3(0, 0, 0)
X == vec3(ONE, 0, 0)
Y == vec3(0, ONE, 0)
Z == vec3(0, 0, ONE)
NEG_Y == vec3(0, -ONE, 0)
NEG_Z == vec3(0, 0, -ONE)
NaNVec == vec3(NaN, NaN, NaN)
VAdd(a, b) == vec3(FAdd(a.x, b.x), FAdd(a.y, b.y), FAdd(a.z, b.z))
VSub(a, b) == vec3(FSub(a.x, b.x), FSub(a.y, b.y), FSub(a.z, b.z))
VNeg(a) == vec3(FSub(0, a.x), FSub(0, a.y), FSub(0, a.z))
VScale(a, s) == vec3(FMul(a.x, s), FMul(a.y, s), FMul(a.z, s))
VAbs(a) == vec3(Abs(a.x), Abs(a.y), Abs(a.z))
VMax(a, b) == vec3(FMax(a.x, b.x), FMax(a.y, b.y), FMax(a.z, b.z))
Dot(a, b) == FAdd(FAdd(FMul(a.x, b.x), FMul(a.y, b.y)), FMul(a.z, b.z))
Cross(a, b) ==
    vec3(FSub(FMul(a.y, b.z), FMul(a.z, b.y)),
         FSub(FMul(a.z, b.x), FMul(a.x, b.z)),
         FSub(FMul(a.x, b.y), FMul(a.y, b.x)))

\* Squares of coordinates exceed 32-bit integers, so a square is a two-limb
\* number <<hi, lo>> = hi * Word + lo.
Limb == 2 ^ 11
Word == Limb * Limb
Sq2(x) ==
    LET a == x \div Limb
        b == x % Limb
        c == 2 * a * b
        t == (c % Limb) * Limb + b * b
    IN  <<a * a + c \div Limb + t \div Word, t % Word>>
Add2(p, q) == <<p[1] + q[1] + (p[2] + q[2]) \div Word, (p[2] + q[2]) % Word>>
Leq2(p, q) == p[1] < q[1] \/ (p[1] = q[1] /\ p[2] <= q[2])
RECURSIVE Root2(_, _, _)
Root2(n, lo, hi) ==
    IF lo >= hi THEN lo
    ELSE LET mid == (lo + hi + 1) \div 2
         IN  IF Leq2(Sq2(mid), n) THEN Root2(n, mid, hi) ELSE Root2(n, lo, mid - 1)
\* floor(sqrt(n)) of a two-limb n
Sqrt2(n) == Root2(n, 0, 2 * Word - 1)
\* Vec3::length / Vec2::length
Length(v) == Sqrt2(Add2(Add2(Sq2(Abs(v.x)), Sq2(Abs(v.y))), Sq2(Abs(v.z))))
Length2(a, b) == Sqrt2(Add2(Sq2(Abs(a)), Sq2(Abs(b))))
\* f32 keeps its relative precision on short vectors: a non-zero vector is
\* brought to at least ten times the unit before its length is taken.
RECURSIVE Widen(_)
Widen(v) ==
    IF FMax(FMax(Abs(v.x), Abs(v.y)), Abs(v.z)) >= 10 * ONE THEN v
    ELSE Widen(vec3(10 * v.x, 10 * v.y, 10 * v.z))
Unit(v) ==
    LET w == Widen(v)
        len == Length(w)
    IN  vec3(FDiv(w.x, len), FDiv(w.y, len), FDiv(w.z, len))
\* Vec3::normalize: self * (1 / length); a zero vector gives 0 * inf = NaN
Normalize(v) == IF v = ZERO THEN NaNVec ELSE Unit(v)
\* Vec3::normalize_or: the fallback when the length has no finite reciprocal
NormalizeOr(v, fallback) == IF v = ZERO THEN fallback ELSE Unit(v)


\* ----------------------------------------------------------------- Mat4
\* Rows of a 4x4 matrix, entries on the f32 grid.
Mat4(r1, r2, r3, r4) == <<r1, r2, r3, r4>>
from_translation(t) ==
    Mat4(<<ONE, 0, 0, t.x>>, <<0, ONE, 0, t.y>>, <<0, 0, ONE, t.z>>, <<0, 0, 0, ONE>>)
from_rotation_x(s, c) ==
    Mat4(<<ONE, 0, 0, 0>>, <<0, c, -s, 0>>, <<0, s, c, 0>>, <<0, 0, 0, ONE>>)
from_rotation_y(s, c) ==
    Mat4(<<c, 0, s, 0>>, <<0, ONE, 0, 0>>, <<-s, 0, c, 0>>, <<0, 0, 0, ONE>>)
MatMul(a, b) ==
    [i \in 1..4 |-> [j \in 1..4 |->
        FAdd(FAdd(FMul(a[i][1], b[1][j]), FMul(a[i][2], b[2][j])),
             FAdd(FMul(a[i][3], b[3][j]), FMul(a[i][4], b[4][j])))]]
\* mutant: the point extended with 0.0, which drops the translation column
TransformPointNoW(mat, pt) ==
    LET row(i) == FAdd(FAdd(FMul(mat[i][1], pt.x), FMul(mat[i][2], pt.y)),
                       FMul(mat[i][3], pt.z))
    IN  vec3(row(1), row(2), row(3))
\* (mat * pt.extend(1.0)).truncate()
TransformPoint(mat, pt) ==
    LET row(i) == FAdd(FAdd(FMul(mat[i][1], pt.x), FMul(mat[i][2], pt.y)),
                       FAdd(FMul(mat[i][3], pt.z), FMul(mat[i][4], ONE)))
    IN  vec3(row(1), row(2), row(3))

\* ------------------------------------------------------------------ Sdf
SdfSphere(center, radius) == [kind |-> "Sphere", center |-> center, radius |-> radius]
SdfBox(center, half_size) == [kind |-> "Box", center |-> center, half_size |-> half_size]
SdfDonut(center, radius, tube_radius) ==
    [kind |-> "Donut", center |-> center, radius |-> radius, tube_radius |-> tube_radius]
SdfTransform(mat, inner) == [kind |-> "Transform", mat |-> mat, inner |-> inner]
\* A collection of fields (impl Sdf for I): the members in iteration order.
SdfUnion(members) == [kind |-> "Union", members |-> members]
\* Any other implementation of the trait behind Box<dyn Sdf>: each evaluation
\* returns one of `values`; the samples of estimate_normal one of `samples`.
SdfDyn(values, samples) == [kind |-> "Dyn", values |-> values, samples |-> samples]

SphereDistance(s, pt) == Length(VSub(pt, s.center)) - s.radius

BoxDistance(b, pt) ==
    LET p == VSub(VAbs(VSub(pt, b.center)), b.half_size)
        outside_distance == Length(VMax(p, ZERO))
        inside_distance == FMin(FMax(FMax(p.x, p.y), p.z), 0)
    IN  outside_distance + inside_distance

DonutDistance(d, pt) ==
    LET p == VSub(pt, d.center)
        qx == Length2(p.x, p.y) - d.radius
    IN  Length2(qx, p.z) - d.tube_radius

RECURSIVE distance(_, _)

\* let mut distance = f32::MAX; for inner in self { distance = distance.min(..) }
RECURSIVE UnionFold(_, _, _, _)
UnionFold(members, i, acc, pt) ==
    IF i > Len(members) THEN acc
    ELSE UnionFold(members, i + 1, FMin(acc, distance(members[i], pt)), pt)

\* mutant: the fold starts from 0.0
UnionDistanceFromZero(u, pt) == UnionFold(u.members, 1, 0, pt)
\* mutant: only the first member is looked at
UnionDistanceFirst(u, pt) ==
    IF Len(u.members) = 0 THEN F32_MAX ELSE FMin(F32_MAX, distance(u.members[1], pt))
UnionDistance(u, pt) == UnionFold(u.members, 1, F32_MAX, pt)

TransformDistance(t, pt) == distance(t.inner, TransformPoint(t.mat, pt))

distance(sdf, pt) ==
    CASE sdf.kind = "Sphere" -> SphereDistance(sdf, pt)
      [] sdf.kind = "Box" -> BoxDistance(sdf, pt)
      [] sdf.kind = "Donut" -> DonutDistance(sdf, pt)
      [] sdf.kind = "Transform" -> TransformDistance(sdf, pt)
      [] sdf.kind = "Union" -> UnionDistance(sdf, pt)

\* The values one call of scene.distance(pt) can return.
Eval(sdf, pt) == IF sdf.kind = "Dyn" THEN sdf.values ELSE {distance(sdf, pt)}

\* The six samples of estimate_normal, in the order the code takes them.
eps == ONE \div 10000
NormalSamples(sdf, p) ==
    IF sdf.kind = "Dyn" THEN [1..6 -> sdf.samples]
    ELSE LET dx == VScale(X, eps)
             dy == VScale(Y, eps)
             dz == VScale(Z, eps)
         IN  {<<distance(sdf, VAdd(p, dx)), distance(sdf, VSub(p, dx)),
                distance(sdf, VAdd(p, dy)), distance(sdf, VSub(p, dy)),
                distance(sdf, VAdd(p, dz)), distance(sdf, VSub(p, dz))>>}
NormalOf(s) == Normalize(vec3(FSub(s[1], s[2]), FSub(s[3], s[4]), FSub(s[5], s[6])))
estimate_normal(sdf, p) == {NormalOf(s) : s \in NormalSamples(sdf, p)}

lambert_shading(normal, light_dir) == FMax(Dot(normal, VNeg(light_dir)), 0)

\* 0.1 + shading * 0.9
AMBIENT == ONE \div 10
DIFFUSE == (9 * ONE) \div 10
\* mutant: no ambient floor
HitIntensityNoAmbient(shading) == FMul(shading, DIFFUSE)
HitIntensity(shading) == FAdd(AMBIENT, FMul(shading, DIFFUSE))

\* ------------------------------------------------------------ the camera
Forward(s) == NormalizeOr(VSub(s.camera_up, s.camera_pos), NEG_Z)
Right(s) == NormalizeOr(Cross(Forward(s), s.camera_up), X)
Up(s) == NormalizeOr(Cross(Forward(s), Right(s)), NEG_Y)

\* usize as f32
AsF32(n) == n * ONE
CameraWidth(s, w, h, aspect) ==
    IF w > h THEN FMul(FDiv(FMul(s.camera_size, AsF32(w)), AsF32(h)), aspect)
    ELSE s.camera_size
CameraHeight(s, w, h, aspect) ==
    IF w > h THEN s.camera_size
    ELSE FDiv(FDiv(FMul(s.camera_size, AsF32(h)), AsF32(w)), aspect)
\* x + y of one pixel: the origin of its ray
RayStart(s, w, h, aspect, sx, sy) ==
    LET x == VAdd(s.camera_pos,
                  VScale(Right(s), FMul(CameraWidth(s, w, h, aspect),
                                        FSub(FDiv(AsF32(sx), AsF32(w)), ONE \div 2))))
        y == VAdd(s.camera_pos,
                  VScale(Up(s), FMul(CameraHeight(s, w, h, aspect),
                                     FSub(FDiv(AsF32(sy), AsF32(h)), ONE \div 2))))
    IN  VAdd(x, y)

\* ((intensity.clamp(0.0, 1.0) * 15.0) as usize).clamp(0, 14); NaN as usize is 0
Clamp(v, lo, hi) == IF v < lo THEN lo ELSE IF v > hi THEN hi ELSE v
CharIndex(i) ==
    IF IsNaN(i) THEN 0
    ELSE Clamp(FMul(Clamp(i, 0, ONE), AsF32(Len(SYMBOLS))) \div ONE, 0, Len(SYMBOLS) - 1)

\* ---------------------------------------------------------------- scenes
\* time = k * pi/4: the sines of the eighth turns on the grid
SinTable == <<0, 7071, 10000, 7071, 0, -7071, -10000, -7071>>
Sin(k) == SinTable[(k % 8) + 1]
Cos(k) == Sin(k + 2)

Scene(sdf, camera_pos, look_at, camera_up, camera_size, light_dir) ==
    [scene |-> sdf, camera_pos |-> camera_pos, look_at |-> look_at,
     camera_up |-> camera_up, camera_size |-> camera_size, light_dir |-> light_dir]

scene_at(time) ==
    Scene(SdfTransform(
              MatMul(from_rotation_x(Sin(time), Cos(time)),
                     from_rotation_y(Sin(time), Cos(time))),
              SdfUnion(<<SdfSphere(ZERO, 7 * ONE),
                         SdfBox(vec3(FMul(Sin(time * 2), 3 * ONE), 0, 0),
                                vec3(10 * ONE, 3 * ONE, 3 * ONE)),
                         SdfDonut(ZERO, 10 * ONE, 2 * ONE)>>)),
          vec3(0, 0, 20 * ONE), ZERO, vec3(0, ONE, 0), 20 * ONE,
          vec3(ONE, -ONE, -ONE))

\* The scenes rendered.  Times are eighth turns, MaxTime the last one.
MaxTime == 1
MaxScreen == 3
MaxDynPixels == 1

UnitLight == vec3(5773, -5773, -5773)
Camera20 == vec3(0, 0, 20 * ONE)
\* a sphere seen from outside, and the same scene with only look_at or only
\* camera_up changed
SphereScene == Scene(SdfSphere(ZERO, 7 * ONE), Camera20, ZERO, Y, 20 * ONE, UnitLight)
LookAtScene == [SphereScene EXCEPT !.look_at = vec3(20 * ONE, 0, 20 * ONE)]
CameraUpScene == [SphereScene EXCEPT !.camera_up = X]
\* the camera at the centre of a sphere
InsideScene == Scene(SdfSphere(ZERO, 5 * ONE), ZERO, Z, Y, 20 * ONE, UnitLight)
\* a union with no member
EmptyScene == Scene(SdfUnion(<<>>), Camera20, ZERO, Y, 20 * ONE, UnitLight)
\* a translation node
TranslatedScene ==
    Scene(SdfTransform(from_translation(vec3(3 * ONE, -2 * ONE, ONE)),
                       SdfBox(ZERO, vec3(4 * ONE, 5 * ONE, 2 * ONE))),
          Camera20, ZERO, Y, 20 * ONE, UnitLight)
\* unions and transform nodes inside a union
NestedScene ==
    Scene(SdfUnion(<<SdfUnion(<<SdfSphere(vec3(-6 * ONE, 0, 0), 3 * ONE),
                                SdfTransform(from_rotation_x(Sin(2), Cos(2)),
                                             SdfDonut(ZERO, 8 * ONE, ONE))>>),
                     SdfTransform(from_translation(vec3(-5 * ONE, 0, 0)),
                                  SdfUnion(<<SdfBox(ZERO, vec3(ONE, 6 * ONE, ONE))>>)),
                     SdfBox(vec3(0, -9 * ONE, 0), vec3(9 * ONE, ONE, 4 * ONE))>>),
          Camera20, ZERO, Y, 20 * ONE, UnitLight)
\* an arbitrary implementation of the trait: NaN, the largest hit, the smallest
\* miss, a long step and f32::MAX
DynScene ==
    Scene(SdfDyn({NaN, EPSILON - 1, EPSILON, 50 * ONE, F32_MAX}, {0, ONE}),
          Camera20, ZERO, Y, 20 * ONE, UnitLight)

Scenes ==
    {scene_at(t) : t \in 0..MaxTime}
        \cup {SphereScene, LookAtScene, CameraUpScene, InsideScene, EmptyScene,
              TranslatedScene, NestedScene, DynScene}
ScreenAspects == {ONE \div 2}

\* ------------------------------------------------------------- the state
VARIABLES
    pc,                       \* where render_scene / cast_ray stands
    scene, screen_width, screen_height, screen_aspect,   \* render_scene's arguments
    forward,                  \* the direction of every ray
    buffer, screen_x, screen_y,
    step, total_distance_traveled, current_point, current_distance,
    eval_point,               \* the point of the last scene.distance call of the march loop
    evals,                    \* scene.distance calls made by the march loop of this ray
    normal, shaded,           \* the normal of the hit, and whether one was taken
    intensity                 \* what cast_ray returned

vars == <<pc, scene, screen_width, screen_height, screen_aspect, forward, buffer,
          screen_x, screen_y, step, total_distance_traveled, current_point,
          current_distance, eval_point, evals, normal, shaded, intensity>>

args == <<scene, screen_width, screen_height, screen_aspect>>
ray_vars == <<step, total_distance_traveled, current_point, current_distance, eval_point,
              evals, normal, shaded, intensity>>

Init ==
    /\ scene \in Scenes
    /\ screen_width \in 0..MaxScreen
    /\ screen_height \in 0..MaxScreen
    /\ scene.scene.kind = "Dyn" => screen_width * screen_height <= MaxDynPixels
    /\ screen_aspect \in ScreenAspects
    /\ pc = "start"
    /\ forward = ZERO
    /\ buffer = <<>>
    /\ screen_x = 0
    /\ screen_y = 0
    /\ step = 0
    /\ total_distance_traveled = 0
    /\ current_point = ZERO
    /\ current_distance = 0
    /\ eval_point = ZERO
    /\ evals = 0
    /\ normal = ZERO
    /\ shaded = FALSE
    /\ intensity = 0

\* render_scene up to the pixel loops: the camera basis and the empty buffer
Setup ==
    /\ pc = "start"
    /\ forward' = Forward(scene)
    /\ buffer' = <<>>
    /\ screen_x' = 0
    /\ screen_y' = 0
    /\ pc' = "pixels"
    /\ UNCHANGED <<args, ray_vars>>

\* one pixel: cast_ray is called and initialises its locals
StartPixel ==
    /\ pc = "pixels"
    /\ screen_y < screen_height
    /\ screen_x < screen_width
    /\ step' = 0
    /\ total_distance_traveled' = 0
    /\ current_point' =
           RayStart(scene, screen_width, screen_height, screen_aspect, screen_x, screen_y)
    /\ current_distance' = 0
    /\ eval_point' = ZERO
    /\ evals' = 0
    /\ normal' = ZERO
    /\ shaded' = FALSE
    /\ intensity' = 0
    /\ pc' = "march"
    /\ UNCHANGED <<args, forward, buffer, screen_x, screen_y>>

LoopCondition == step < MAX_STEPS /\ FLt(total_distance_traveled, MAX_DISTANCE)

\* an iteration whose distance is below EPSILON: the normal, the shading, return
Hit ==
    /\ pc = "march"
    /\ LoopCondition
    /\ \E d \in Eval(scene.scene, current_point) :
          /\ FLt(d, EPSILON)
          /\ current_distance' = d
          /\ \E n \in estimate_normal(scene.scene, current_point) :
                /\ normal' = n
                /\ intensity' = HitIntensity(lambert_shading(n, scene.light_dir))
    /\ shaded' = TRUE
    /\ eval_point' = current_point
    /\ evals' = evals + 1
    /\ pc' = "return"
    /\ UNCHANGED <<args, forward, buffer, screen_x, screen_y, step,
                   total_distance_traveled, current_point>>

\* mutant: the step counter is not incremented
AdvanceNoStep ==
    /\ pc = "march"
    /\ LoopCondition
    /\ \E d \in Eval(scene.scene, current_point) :
          /\ ~FLt(d, EPSILON)
          /\ current_distance' = d
          /\ total_distance_traveled' = FAdd(total_distance_traveled, d)
          /\ current_point' = VAdd(current_point, VScale(forward, d))
    /\ eval_point' = current_point
    /\ evals' = evals + 1
    /\ UNCHANGED <<pc, args, forward, buffer, screen_x, screen_y, step, normal, shaded,
                   intensity>>

\* an iteration that advances along the ray
Advance ==
    /\ pc = "march"
    /\ LoopCondition
    /\ \E d \in Eval(scene.scene, current_point) :
          /\ ~FLt(d, EPSILON)
          /\ current_distance' = d
          /\ total_distance_traveled' = FAdd(total_distance_traveled, d)
          /\ current_point' = VAdd(current_point, VScale(forward, d))
    /\ step' = step + 1
    /\ eval_point' = current_point
    /\ evals' = evals + 1
    /\ UNCHANGED <<pc, args, forward, buffer, screen_x, screen_y, normal, shaded,
                   intensity>>

\* mutant: a miss returns the ambient term
MissAmbient ==
    /\ pc = "march"
    /\ ~LoopCondition
    /\ intensity' = AMBIENT
    /\ pc' = "return"
    /\ UNCHANGED <<args, forward, buffer, screen_x, screen_y, step,
                   total_distance_traveled, current_point, current_distance, eval_point,
                   evals, normal, shaded>>

\* the loop condition fails: 0.0, the pixel is in empty space
Miss ==
    /\ pc = "march"
    /\ ~LoopCondition
    /\ intensity' = 0
    /\ pc' = "return"
    /\ UNCHANGED <<args, forward, buffer, screen_x, screen_y, step,
                   total_distance_traveled, current_point, current_distance, eval_point,
                   evals, normal, shaded>>

\* cast_ray has returned (its locals are gone); the glyph of the pixel is
\* appended to the buffer
WriteGlyph ==
    /\ pc = "return"
    /\ buffer' = Append(buffer, SYMBOLS[CharIndex(intensity) + 1])
    /\ screen_x' = screen_x + 1
    /\ pc' = "pixels"
    /\ step' = 0
    /\ total_distance_traveled' = 0
    /\ current_point' = ZERO
    /\ current_distance' = 0
    /\ eval_point' = ZERO
    /\ evals' = 0
    /\ normal' = ZERO
    /\ UNCHANGED <<args, forward, screen_y, shaded, intensity>>

\* mutant: a row separator is written between rows
EndRowNewline ==
    /\ pc = "pixels"
    /\ screen_y < screen_height
    /\ screen_x >= screen_width
    /\ buffer' = IF screen_y + 1 < screen_height THEN Append(buffer, "\n") ELSE buffer
    /\ screen_x' = 0
    /\ screen_y' = screen_y + 1
    /\ UNCHANGED <<pc, args, forward, ray_vars>>

\* the inner loop is over; the code appends no row separator
EndRow ==
    /\ pc = "pixels"
    /\ screen_y < screen_height
    /\ screen_x >= screen_width
    /\ screen_x' = 0
    /\ screen_y' = screen_y + 1
    /\ UNCHANGED <<pc, args, forward, buffer, ray_vars>>

\* render_scene returns the buffer
Finish ==
    /\ pc = "pixels"
    /\ screen_y >= screen_height
    /\ pc' = "done"
    /\ UNCHANGED <<args, forward, buffer, screen_x, screen_y, ray_vars>>

Next == Setup \/ StartPixel \/ Hit \/ Advance \/ Miss \/ WriteGlyph \/ EndRow \/ Finish

Spec == Init /\ [][Next]_vars

\* ---------------------------------------------------------------- claims
Range(f) == {f[i] : i \in DOMAIN f}
RECURSIVE SetMin(_)
SetMin(S) ==
    LET a == CHOOSE v \in S : TRUE
    IN  IF S = {a} THEN a ELSE LET m == SetMin(S \ {a}) IN IF a < m THEN a ELSE m
Reverse(q) == [i \in 1..Len(q) |-> q[Len(q) + 1 - i]]
LastGlyph == buffer[Len(buffer)]
Translation(mat) == vec3(mat[1][4], mat[2][4], mat[3][4])

\* C1: render_scene returns exactly screen_width * screen_height glyphs, written
\* row-major with no row separator, each one of the 15 characters of the ramp;
\* the ramp index computed for a pixel is always within 0..14.
C1_BufferIsRowMajorGlyphs ==
    /\ Cardinality(Range(SYMBOLS)) = 15
    /\ \A i \in 1..Len(buffer) : buffer[i] \in Range(SYMBOLS)
    /\ pc \in {"pixels", "march", "return"} =>
           Len(buffer) = screen_y * screen_width + screen_x
    /\ pc = "done" => Len(buffer) = screen_width * screen_height
    /\ pc = "return" => CharIndex(intensity) \in 0..14
C1_Witness ==
    /\ pc = "done"
    /\ screen_width = 3
    /\ screen_height = 2
    /\ Len(buffer) = 6
    /\ \E i \in 1..Len(buffer) : buffer[i] = "@"

\* The march loop evaluates the field at most MAX_STEPS times, one evaluation per
\* iteration, and goes on only after a distance that is not below EPSILON.
C2_MarchInvariant ==
    /\ evals <= MAX_STEPS
    /\ step <= MAX_STEPS
    /\ pc = "march" => evals = step
    /\ pc = "march" /\ step > 0 => ~FLt(current_distance, EPSILON)
    /\ pc = "return" =>
           \/ FLt(current_distance, EPSILON)
           \/ step >= MAX_STEPS
           \/ ~FLt(total_distance_traveled, MAX_DISTANCE)
\* An iteration either returns (a distance below EPSILON) or increments step;
\* once step has reached MAX_STEPS or total_distance_traveled has reached
\* MAX_DISTANCE the next thing the ray does is return, with no further evaluation.
C2_MarchStep ==
    pc = "march" =>
        IF step < MAX_STEPS /\ FLt(total_distance_traveled, MAX_DISTANCE)
        THEN /\ evals' = evals + 1
             /\ \/ pc' = "return" /\ FLt(current_distance', EPSILON) /\ step' = step
                \/ pc' = "march" /\ ~FLt(current_distance', EPSILON) /\ step' = step + 1
        ELSE pc' = "return" /\ evals' = evals /\ step' = step
\* C2: cast_ray's march loop makes at most MAX_STEPS evaluations and stops as soon
\* as a distance is below EPSILON, step reaches MAX_STEPS or total_distance_traveled
\* reaches MAX_DISTANCE: the invariant and the step property above, together.
C2_MarchStops == []C2_MarchInvariant /\ [][C2_MarchStep]_vars
C2_Witness ==
    /\ pc = "return"
    /\ step = MAX_STEPS
    /\ evals = MAX_STEPS
    /\ FLt(total_distance_traveled, MAX_DISTANCE)
    /\ ~shaded

\* C3: a ray whose march ends with no evaluated distance below EPSILON returns
\* exactly 0.0 and takes no normal and no shading.
C3_MissReturnsZero ==
    pc = "return" /\ ~FLt(current_distance, EPSILON) =>
        intensity = 0 /\ ~shaded /\ normal = ZERO
C3_Witness ==
    /\ pc = "return"
    /\ scene = SphereScene
    /\ ~FLt(current_distance, EPSILON)
    /\ step > 1
    /\ step < MAX_STEPS
    /\ ~FLt(total_distance_traveled, MAX_DISTANCE)
    /\ intensity = 0

\* C4 (as claimed): on a hit with a unit normal, in a Scene built by scene(time),
\* the returned intensity lies in [0.1, 1.0].
C4_HitIntensityInRange ==
    (/\ pc = "return"
     /\ shaded
     /\ normal # NaNVec
     /\ scene \in {scene_at(t) : t \in 0..MaxTime}) =>
        AMBIENT <= intensity /\ intensity <= ONE

\* C5 (as claimed): the direction of every ray is normalize(look_at - camera_pos),
\* the fallback being used only when that difference has zero length.
C5_ForwardIsLookAt ==
    pc # "start" => forward = NormalizeOr(VSub(scene.look_at, scene.camera_pos), NEG_Z)

C7_NormalIsNeverNaN ==
    scene.scene.kind # "Dyn" /\ shaded => normal # NaNVec

\* C8 (as claimed): a transform node whose matrix is a translation by t has, at
\* every point p, the distance of its inner field at p - t.
C8_TranslationEvaluatesAtPMinusT ==
    (/\ scene.scene.kind = "Transform"
     /\ scene.scene.mat = from_translation(Translation(scene.scene.mat))
     /\ evals > 0) =>
        current_distance =
            distance(scene.scene.inner, VSub(eval_point, Translation(scene.scene.mat)))
\* C8 (amended): a transform node whose matrix is a translation by t has, at every
\* point p, the distance of its inner field at p + t.
C8_TranslationEvaluatesAtPPlusT ==
    (/\ scene.scene.kind = "Transform"
     /\ scene.scene.mat = from_translation(Translation(scene.scene.mat))
     /\ evals > 0) =>
        current_distance =
            distance(scene.scene.inner, VAdd(eval_point, Translation(scene.scene.mat)))
C8_Witness ==
    /\ scene = TranslatedScene
    /\ pc = "return"
    /\ shaded
    /\ step > 0

\* C9: the distance of a non-empty union at p is the minimum of its members'
\* distances at p, whatever the order of the members, also when the members are
\* unions or transform nodes and when the union is itself inside a transform node.
MemberMin(u, p) == SetMin({distance(u.members[i], p) : i \in 1..Len(u.members)})
C9_UnionIsMinimum ==
    /\ (scene.scene.kind = "Union" /\ Len(scene.scene.members) > 0 /\ evals > 0) =>
           /\ current_distance = MemberMin(scene.scene, eval_point)
           /\ current_distance =
                  distance(SdfUnion(Reverse(scene.scene.members)), eval_point)
    /\ (/\ scene.scene.kind = "Transform"
        /\ scene.scene.inner.kind = "Union"
        /\ Len(scene.scene.inner.members) > 0
        /\ evals > 0) =>
           current_distance =
               MemberMin(scene.scene.inner, TransformPoint(scene.scene.mat, eval_point))
C9_Witness ==
    /\ scene = NestedScene
    /\ evals > 0
    /\ current_distance = distance(scene.scene.members[2], eval_point)
    /\ current_distance < distance(scene.scene.members[1], eval_point)
    /\ current_distance < distance(scene.scene.members[3], eval_point)

\* C10: a pixel is written as the blank glyph exactly when its ray ended as a miss:
\* a miss has intensity 0.0 and ramp index 0, a hit has intensity at least 0.1 and
\* a ramp index of at least 1, also with a zero shading term or a NaN normal.
C10_BlankIffMiss ==
    /\ pc = "return" /\ shaded => intensity >= AMBIENT /\ CharIndex(intensity) >= 1
    /\ pc = "return" /\ ~shaded => intensity = 0 /\ CharIndex(intensity) = 0
    /\ pc \in {"pixels", "done"} /\ Len(buffer) > 0 => (LastGlyph = " " <=> ~shaded)
C10_Witness ==
    /\ pc = "pixels"
    /\ Len(buffer) > 0
    /\ shaded
    /\ intensity = AMBIENT
    /\ LastGlyph = "."
====
